---- MODULE Spec2Model ----
(***************************************************************************)
(* Model of the dictionary tagging pipeline of                             *)
(* src/narrant/entitylinking/dictpreprocess.py: main() computes the work   *)
(* set, starts one ProducerWorker, args.workers Workers and one            *)
(* ConsumerWorker, joins the consumer, writes the DocTaggedBy records and  *)
(* removes the temporary directory.                                        *)
(*                                                                         *)
(* The run is modelled without --workdir (root_dir = tempfile.mkdtemp()).  *)
(* The classes ProducerWorker, Worker and ConsumerWorker and the tag       *)
(* buffer of the tagger live in modules of the package that are not part   *)
(* of the sources at hand; their loops are modelled from the               *)
(* specification (sections 4.1 to 4.3).                                    *)
(*                                                                         *)
(* The MeSH ontology index of src/narrant/entity/meshontology.py is        *)
(* modelled beside it: the two dictionaries of MeSHOntology, the loop that *)
(* builds them and the two functions that classify tree numbers and        *)
(* descriptors.  Tree numbers are sequences of characters.                 *)
(***************************************************************************)
EXTENDS Integers, Sequences, FiniteSets, TLC

\* ------------------------------------------------------------------ bounds
MaxDocs == 2        \* document ids are 1..MaxDocs
MaxWorkers == 2     \* args.workers ranges over 1..MaxWorkers
MaxDescs == 2       \* the MeSH file holds at most MaxDescs descriptors
MaxTreeNos == 2     \* a descriptor has at most MaxTreeNos tree numbers

\* ------------------------------------------------------- program constants
\* dictpreprocess.py:28 sets 1000; scaled down so that the cadence is reached.
BULK_INSERT_AFTER_K == 2
\* dictpreprocess.py:228 passes max_tasks=100000; scaled down likewise.
max_tasks == 1

DocIds == 1..MaxDocs
\* the batching scenario of the specification, K = 1000 and n = 2500, scaled:
\* two full batches and a remainder
BatchDocs == 2 * BULK_INSERT_AFTER_K + 1
\* the failure scenario of the specification (documents {1,2,3}, K = 2):
\* one full batch and one more document
ScenarioDocs == BULK_INSERT_AFTER_K + 1
\* every id that occurs in some run
AllIds == 1..(IF BatchDocs > MaxDocs THEN BatchDocs ELSE MaxDocs)

VARIABLES
    args,                \* parsed command line: input, skip_load, force_tag_all, workers
    in_file,             \* the composite input file: [exists, ids]
    has_content,         \* content predicate of every document
    second_run,          \* TRUE in the run that follows a completed run
    prev_work_set,       \* history: the work set of the run before this one
    db_docs,             \* storage: ids of the Document table for the collection
    doc_tagged_by,       \* storage: ids with a DocTaggedBy record of this tagger+version
    pc,                  \* position of main()
    root_dir,            \* TRUE while the temporary directory of the run exists
    document_ids,        \* main's document_ids (the work set)
    document_ids_in_db,  \* main's document_ids_in_db
    number_of_docs,      \* main's number_of_docs
    run_records,         \* history: ids for which this run wrote a DocTaggedBy record
    work_set,            \* history: the work set as computed when the run began
    producer,            \* ProducerWorker: [pc, pending, signals, failed]
    task_queue,          \* multiprocessing.Queue of tasks
    workers,             \* Worker processes: how many are new, idle, exited, dead
    busy,                \* Worker processes holding an item: how many hold each item
    result_queue,        \* multiprocessing.Queue of results
    consumer,            \* ConsumerWorker: [pc, no_workers]
    docs_done,           \* the shared progress counter
    partial_tags,        \* the tagger's buffer of tags not yet inserted
    inserted,            \* storage: the tag batches this run bulk-inserted, in order
    enqueued,            \* history: ids put on the task queue
    taken,               \* history: how often each id was dequeued by a worker
    emitted,             \* history: how many results the workers put for each id
    failed,              \* history: ids whose tagging raised
    counted,             \* history: how often consume_task ran for each id
    produced,            \* history: the tag list of the Result emitted for each id
    flushed_at,          \* history: the value of docs_done at each bulk insert
    treeno2desc,         \* MeSHOntology: tree number -> (descriptor id, heading)
    descriptor2treeno,   \* MeSHOntology: descriptor id -> list of tree numbers
    ont,                 \* position of __build_index_from_mesh: [pc, desc, n, tree_no]
    ont_result           \* the outcome of the last classification call

input_vars == <<args, in_file, has_content, second_run, prev_work_set>>
storage_vars == <<db_docs, doc_tagged_by>>
main_vars == <<pc, root_dir, document_ids, document_ids_in_db, number_of_docs,
               run_records, work_set>>
worker_vars == <<workers, busy>>
consumer_vars == <<consumer, docs_done, partial_tags, inserted>>
history_vars == <<enqueued, taken, emitted, failed, counted, produced, flushed_at>>

ontology_vars == <<treeno2desc, descriptor2treeno, ont, ont_result>>

vars == <<input_vars, storage_vars, main_vars, producer, task_queue, worker_vars,
          result_queue, consumer_vars, history_vars, ontology_vars>>

\* ----------------------------------------------------------------- helpers
RECURSIVE SortedSeq(_)
\* the ids of S in ascending order (the order in which a supply yields them)
SortedSeq(S) ==
    IF S = {} THEN <<>>
    ELSE LET m == CHOOSE x \in S : \A y \in S : x <= y
         IN <<m>> \o SortedSeq(S \ {m})

RECURSIVE SumOver(_, _)
SumOver(f, S) ==
    IF S = {} THEN 0
    ELSE LET x == CHOOSE y \in S : TRUE IN f[x] + SumOver(f, S \ {x})

RECURSIVE Flatten(_)
\* the concatenation of a sequence of sequences
Flatten(ss) == IF ss = <<>> THEN <<>> ELSE Head(ss) \o Flatten(Tail(ss))

\* queue items: a Task wraps a document, SHUTDOWN_SIGNAL closes the stream
Task(d) == [shutdown |-> FALSE, doc |-> d]
SHUTDOWN_SIGNAL == [shutdown |-> TRUE, doc |-> 0]
\* a Result is the list of tags do_task returned; doc is history only
Result(d, tags) == [shutdown |-> FALSE, doc |-> d, tags |-> tags]
SHUTDOWN_RESULT == [shutdown |-> TRUE, doc |-> 0, tags |-> <<>>]

\* TaggedEntity: only its document field is read by the pipeline
TaggedEntity(d, k) == [document |-> d, k |-> k]
TagList(d, n) == [k \in 1..n |-> TaggedEntity(d, k)]

\* what metatag.tag_doc followed by clean_tags can do on a document: raise,
\* find nothing, or find tags (document d is given d of them, so that lists
\* of several lengths occur)
TagOutcomes(d) ==
    {[raises |-> TRUE, tags |-> <<>>],
     [raises |-> FALSE, tags |-> <<>>],
     [raises |-> FALSE, tags |-> TagList(d, d)]}

\* ------------------------------------------------------ functions of main
\* get_untagged_doc_ids_by_tagger: the target ids without a DocTaggedBy record
get_untagged_doc_ids_by_tagger(target_ids, tagged) == target_ids \ tagged

find_untagged_ids(file, tagged) ==
    IF ~file.exists THEN {}
    ELSE get_untagged_doc_ids_by_tagger(file.ids, tagged)

\* document_bulk_load: the documents of the file are added to the collection
document_bulk_load(file, docs) == docs \cup file.ids

\* the work set, as lines 129-163 compute it
WorkSet(a, file, docs, tagged) ==
    IF a.input THEN find_untagged_ids(file, tagged)
    ELSE IF ~a.force_tag_all THEN get_untagged_doc_ids_by_tagger(docs, tagged)
    ELSE docs

\* the storage-presence set, as lines 134-148 compute it
StorageAfterLoad(a, file, docs) ==
    IF a.input /\ ~a.skip_load THEN document_bulk_load(file, docs) ELSE docs

\* generate_tasks: the documents the generator yields, in supply order
generate_tasks(input_file_given, file, docs, ids, content) ==
    LET supply == IF input_file_given THEN SortedSeq(file.ids) ELSE SortedSeq(docs)
        eligible(d) == d \in ids /\ content[d]
    IN SelectSeq(supply, eligible)

\* variant of do_task without the except clause: the exception leaves it
do_task_no_except(in_doc, outcome) ==
    IF outcome.raises THEN [raised |-> TRUE, value |-> <<>>]
    ELSE [raised |-> FALSE, value |-> outcome.tags]
\* variant of do_task whose except clause returns a tag of the document
do_task_stale_tags(in_doc, outcome) ==
    IF outcome.raises THEN [raised |-> FALSE, value |-> TagList(in_doc, 1)]
    ELSE [raised |-> FALSE, value |-> outcome.tags]
\* do_task: the exception of the tagger is caught and becomes an empty list
do_task(in_doc, outcome) ==
    IF outcome.raises THEN [raised |-> FALSE, value |-> <<>>]
    ELSE [raised |-> FALSE, value |-> outcome.tags]

\* variant of consume_task that tests the counter before incrementing it
consume_task_tests_before_count(tags, done, buffer, in_db) ==
    LET n == done + 1
        b == IF Len(tags) > 0 /\ tags[1].document \in in_db
             THEN buffer \o tags ELSE buffer
    IN [docs_done |-> n, partial_tags |-> b, flush |-> done % BULK_INSERT_AFTER_K = 0]
\* variant of consume_task that buffers the tags whether or not the document
\* is in storage
consume_task_any_document(tags, done, buffer, in_db) ==
    LET n == done + 1
        b == IF Len(tags) > 0 THEN buffer \o tags ELSE buffer
    IN [docs_done |-> n, partial_tags |-> b, flush |-> n % BULK_INSERT_AFTER_K = 0]
\* variant of consume_task that counts only non-empty tag lists
consume_task_counts_tagged(tags, done, buffer, in_db) ==
    LET n == IF Len(tags) > 0 THEN done + 1 ELSE done
        b == IF Len(tags) > 0 /\ tags[1].document \in in_db
             THEN buffer \o tags ELSE buffer
    IN [docs_done |-> n, partial_tags |-> b,
        flush |-> Len(tags) > 0 /\ n % BULK_INSERT_AFTER_K = 0]
\* variant of consume_task whose cadence is keyed to the buffer size
consume_task_flush_on_size(tags, done, buffer, in_db) ==
    LET n == done + 1
        b == IF Len(tags) > 0 /\ tags[1].document \in in_db
             THEN buffer \o tags ELSE buffer
    IN [docs_done |-> n, partial_tags |-> b, flush |-> Len(b) >= BULK_INSERT_AFTER_K]
\* consume_task: the counter, the buffer and whether the cadence is reached
consume_task(tags, done, buffer, in_db) ==
    LET n == done + 1
        b == IF Len(tags) > 0 /\ tags[1].document \in in_db
             THEN buffer \o tags ELSE buffer
    IN [docs_done |-> n, partial_tags |-> b, flush |-> n % BULK_INSERT_AFTER_K = 0]

\* variant of lines 165-167 without the exit(0)
after_load_no_exit(number) == "start_producer"
\* lines 165-167: with nothing to process main calls exit(0)
after_load(number) == IF number = 0 THEN "exit0" ELSE "start_producer"

\* variant of line 240 that takes the difference instead of the intersection
finalizing_ids_difference(ids, in_db) == ids \ in_db
\* variant of line 240 without the intersection
finalizing_ids_all(ids, in_db) == ids
\* line 240: the ids that receive a DocTaggedBy record
finalizing_ids(ids, in_db) == ids \cap in_db

\* variant of add_doc_tagged_by_infos that inserts nothing
add_doc_tagged_by_infos_none(ids, tagged) == tagged
\* add_doc_tagged_by_infos: one record per id
add_doc_tagged_by_infos(ids, tagged) == tagged \cup ids

\* variant of line 228 that passes a limit one too large
producer_max_tasks_more == max_tasks + 1
\* line 228: the max_tasks argument the ProducerWorker is constructed with
producer_max_tasks == max_tasks

\* variant of line 228 that tells the producer of a single worker
producer_no_workers_one(a) == 1
\* line 228: the number of workers the ProducerWorker is constructed with
producer_no_workers(a) == a.workers

\* variant of line 230 that tells the consumer of a single worker
consumer_no_workers_one(a) == 1
\* variant of line 230 that tells the consumer of one worker too many
consumer_no_workers_more(a) == a.workers + 1
\* line 230: the number of workers the ConsumerWorker is constructed with
consumer_no_workers(a) == a.workers

\* ---------------------------------------------------------- MeSH ontology
\* the entity types of narrant.entitylinking.enttypes that the table names
VACCINE == "VACCINE"
DOSAGE_FORM == "DOSAGE_FORM"
METHOD == "METHOD"
LAB_METHOD == "LAB_METHOD"
DISEASE == "DISEASE"
HEALTH_STATUS == "HEALTH_STATUS"
TISSUE == "TISSUE"

\* lines 31-47: (tree number code, entity type), in the order of the source
MESH_TREE_TO_ENTITY_TYPE ==
    <<
      <<<<"D", "2", "0", ".", "2", "1", "5", ".", "8", "9", "4">>, VACCINE>>,
      <<<<"D", "2", "6", ".", "2", "5", "5">>, DOSAGE_FORM>>,
      <<<<"E", "0", "2", ".", "3", "1", "9", ".", "3", "0", "0">>, DOSAGE_FORM>>,
      <<<<"E", "0", "2", ".", "3", "1", "9", ".", "2", "6", "7">>, DOSAGE_FORM>>,
      <<<<"J", "0", "1", ".", "6", "3", "7", ".", "5", "1", "2", ".", "6", "0", "0">>, DOSAGE_FORM>>,
      <<<<"J", "0", "1", ".", "6", "3", "7", ".", "5", "1", "2", ".", "8", "5", "0">>, DOSAGE_FORM>>,
      <<<<"J", "0", "1", ".", "6", "3", "7", ".", "5", "1", "2", ".", "9", "2", "5">>, DOSAGE_FORM>>,
      <<<<"E">>, METHOD>>,
      <<<<"E">>, LAB_METHOD>>,
      <<<<"E">>, DOSAGE_FORM>>,
      <<<<"C">>, DISEASE>>,
      <<<<"F", "0", "3">>, DISEASE>>,
      <<<<"F", "0", "2">>, DISEASE>>,
      <<<<"M", "0", "1">>, HEALTH_STATUS>>,
      <<<<"A", "1", "0">>, TISSUE>>
    >>

\* variant of line 180 that compares for equality
startswith_equal(s, prefix) == s = prefix
\* str.startswith: prefix is not longer than s and agrees with it character
\* by character
startswith(s, prefix) ==
    /\ Len(prefix) <= Len(s)
    /\ \A i \in 1..Len(prefix) : s[i] = prefix[i]

RECURSIVE hits_from(_, _)
\* lines 178-181: the loop over the table from entry i on, appending the type
\* of every entry the tree number starts with
hits_from(tree_number, i) ==
    IF i > Len(MESH_TREE_TO_ENTITY_TYPE) THEN <<>>
    ELSE LET tn == MESH_TREE_TO_ENTITY_TYPE[i][1]
             et == MESH_TREE_TO_ENTITY_TYPE[i][2]
         IN (IF startswith(tree_number, tn) THEN <<et>> ELSE <<>>)
               \o hits_from(tree_number, i + 1)

\* tree_number_to_entity_type: the hits, or KeyError when there are none
tree_number_to_entity_type(tree_number) ==
    LET hits == hits_from(tree_number, 1)
    IN IF hits # <<>> THEN [raised |-> FALSE, value |-> hits]
       ELSE [raised |-> TRUE, value |-> <<>>]

\* get_tree_numbers_for_descriptor: KeyError for a descriptor the index lacks
get_tree_numbers_for_descriptor(d2t, descriptor_id) ==
    IF descriptor_id \in DOMAIN d2t
    THEN [raised |-> FALSE, value |-> d2t[descriptor_id]]
    ELSE [raised |-> TRUE, value |-> <<>>]

\* lines 157-163: the set of the types of the tree numbers; a KeyError of
\* tree_number_to_entity_type is passed over
ent_types_of(tree_nos) ==
    UNION {LET r == tree_number_to_entity_type(tree_nos[i])
           IN IF r.raised THEN {} ELSE {r.value[k] : k \in DOMAIN r.value}
           : i \in DOMAIN tree_nos}

\* list(ent_types): the elements of the set, each once, in the order in which
\* the set happens to iterate
ListsOf(S) ==
    {l \in [1..Cardinality(S) -> S] : \A i, j \in DOMAIN l : l[i] = l[j] => i = j}

\* get_entity_types_for_descriptor: the outcomes the call can have
get_entity_types_for_descriptor(d2t, descriptor_id) ==
    LET tree_nos == get_tree_numbers_for_descriptor(d2t, descriptor_id)
    IN IF tree_nos.raised THEN {[raised |-> TRUE, value |-> <<>>]}
       ELSE LET ent_types == ent_types_of(tree_nos.value)
            IN IF Cardinality(ent_types) = 0
               THEN {[raised |-> TRUE, value |-> <<>>]}
               ELSE {[raised |-> FALSE, value |-> l] : l \in ListsOf(ent_types)}

\* variant of _add_descriptor_for_tree_no without the check: the tree number
\* is mapped anew
_add_descriptor_for_tree_no_overwrites(t2d, descriptor_id, descriptor_heading, tree_no) ==
    [raised |-> FALSE,
     treeno2desc |-> (tree_no :> <<descriptor_id, descriptor_heading>>) @@ t2d]
\* _add_descriptor_for_tree_no: KeyError when the tree number is mapped
\* already, else the tree number is mapped to (id, heading)
_add_descriptor_for_tree_no(t2d, descriptor_id, descriptor_heading, tree_no) ==
    IF tree_no \in DOMAIN t2d
    THEN [raised |-> TRUE, treeno2desc |-> t2d]
    ELSE [raised |-> FALSE,
          treeno2desc |-> (tree_no :> <<descriptor_id, descriptor_heading>>) @@ t2d]

\* _add_tree_number_for_descriptor: the tree number is appended to the list
\* of the descriptor, which is created when it is the first
_add_tree_number_for_descriptor(d2t, descriptor_id, tree_no) ==
    IF descriptor_id \in DOMAIN d2t
    THEN [d2t EXCEPT ![descriptor_id] = Append(@, tree_no)]
    ELSE (descriptor_id :> <<tree_no>>) @@ d2t

\* the descriptors of the MeSH file: unique ids, each with its heading
DescIds == 1..MaxDescs
heading(d) == <<"heading", d>>

\* the tree numbers the descriptors of the MeSH file carry: one under a
\* long code and under "E", two of one and the same type, and one no code
\* is a prefix of
MeshTreeNos ==
    {<<"E", "0", "2", ".", "3", "1", "9", ".", "3", "0", "0">>,
     <<"C", "0", "4">>,
     <<"F", "0", "3", ".", "1", "0", "0">>,
     <<"B", "0", "1">>}

\* no call has been made
NoResult == [call |-> "none", arg |-> <<>>, raised |-> FALSE, value |-> <<>>]

\* lines 64-67, 230-232: MeSHOntology() with nothing stored for it: both
\* dictionaries are empty
OntologyConstructed ==
    /\ treeno2desc = <<>>
    /\ descriptor2treeno = <<>>
    /\ ont = [pc |-> "constructed", desc |-> 0, n |-> 0, tree_no |-> <<>>]
    /\ ont_result = NoResult

\* ------------------------------------------------------------------- Init
ZeroCount == [d \in AllIds |-> 0]
\* the items a worker can hold: a document id, or 0 for the closing signal
Items == AllIds \cup {0}

\* the state in which main() begins: nothing started, nothing counted
StartOfRun(a) ==
    /\ pc = "load"
    /\ root_dir = TRUE
    /\ document_ids = {}
    /\ document_ids_in_db = {}
    /\ number_of_docs = 0
    /\ run_records = {}
    /\ work_set = {}
    /\ producer = [pc |-> "new", pending |-> <<>>, signals |-> 0, failed |-> FALSE]
    /\ task_queue = <<>>
    /\ workers = [new |-> a.workers, idle |-> 0, exited |-> 0, dead |-> 0]
    /\ busy = [i \in Items |-> 0]
    /\ result_queue = <<>>
    /\ consumer = [pc |-> "new", no_workers |-> consumer_no_workers(a)]
    /\ docs_done = 0
    /\ partial_tags = <<>>
    /\ inserted = <<>>
    /\ enqueued = {}
    /\ taken = ZeroCount
    /\ emitted = ZeroCount
    /\ failed = {}
    /\ counted = ZeroCount
    /\ produced = [d \in AllIds |-> <<>>]
    /\ flushed_at = <<>>

Init ==
    /\ args \in [input : BOOLEAN, skip_load : BOOLEAN, force_tag_all : BOOLEAN,
                 workers : 1..MaxWorkers]
    /\ args.skip_load => args.input
    /\ in_file \in [exists : BOOLEAN, ids : SUBSET DocIds]
    /\ ~args.input => in_file = [exists |-> FALSE, ids |-> {}]
    /\ ~in_file.exists => in_file.ids = {}
    /\ db_docs \in SUBSET DocIds
    /\ doc_tagged_by \in SUBSET db_docs
    \* ids are interchangeable up to their order: the documents that exist at
    \* all (in the file or in storage) are numbered 1..n
    /\ \E n \in 0..MaxDocs : in_file.ids \cup db_docs = 1..n
    /\ has_content \in [AllIds -> BOOLEAN]
    \* has_content() is evaluated only for ids of the work set (lines 184, 191)
    /\ \A d \in AllIds :
         d \notin WorkSet(args, in_file, db_docs, doc_tagged_by) => has_content[d]
    /\ second_run = FALSE
    /\ prev_work_set = {}
    /\ StartOfRun(args)
    /\ OntologyConstructed

\* ------------------------------------------------------------------- main
\* lines 129-167: the work set, the bulk load, the short-circuit exit(0)
MainLoad ==
    /\ pc = "load"
    /\ LET ids == WorkSet(args, in_file, db_docs, doc_tagged_by)
           docs == StorageAfterLoad(args, in_file, db_docs)
       IN /\ document_ids' = ids
          /\ work_set' = ids
          /\ db_docs' = docs
          /\ document_ids_in_db' = docs
          /\ number_of_docs' = Cardinality(ids)
          /\ pc' = after_load(Cardinality(ids))
    /\ UNCHANGED <<ontology_vars, input_vars, doc_tagged_by, root_dir, run_records, producer,
                   task_queue, worker_vars, result_queue, consumer_vars, history_vars>>

\* lines 131-163: reading the ids or the storage raises; main ends with the exception
MainLoadFails ==
    /\ pc = "load"
    /\ pc' = "crashed"
    /\ UNCHANGED <<ontology_vars, input_vars, storage_vars, root_dir, document_ids, document_ids_in_db,
                   number_of_docs, run_records, work_set, producer, task_queue,
                   worker_vars, result_queue, consumer_vars, history_vars>>

\* line 232: producer.start()
MainStartProducer ==
    /\ pc = "start_producer"
    /\ producer' = [pc |-> "gen",
                    pending |-> generate_tasks(args.input, in_file, db_docs,
                                               document_ids, has_content),
                    signals |-> 0,
                    failed |-> FALSE]
    /\ pc' = "start_workers"
    /\ UNCHANGED <<ontology_vars, input_vars, storage_vars, root_dir, document_ids, document_ids_in_db,
                   number_of_docs, run_records, work_set, task_queue, worker_vars,
                   result_queue, consumer_vars, history_vars>>

\* lines 233-234: w.start(), one worker after the other
MainStartWorker ==
    /\ pc = "start_workers"
    /\ workers' = [workers EXCEPT !.new = @ - 1, !.idle = @ + 1]
    /\ pc' = IF workers.new = 1 THEN "start_consumer" ELSE "start_workers"
    /\ UNCHANGED <<ontology_vars, input_vars, storage_vars, root_dir, document_ids, document_ids_in_db,
                   number_of_docs, run_records, work_set, producer, task_queue, busy,
                   result_queue, consumer_vars, history_vars>>

\* line 235: consumer.start()
MainStartConsumer ==
    /\ pc = "start_consumer"
    /\ consumer' = [consumer EXCEPT !.pc = "run"]
    /\ pc' = "join"
    /\ UNCHANGED <<ontology_vars, input_vars, storage_vars, root_dir, document_ids, document_ids_in_db,
                   number_of_docs, run_records, work_set, producer, task_queue,
                   worker_vars, result_queue, docs_done, partial_tags, inserted,
                   history_vars>>

\* variant of lines 236-241 without the consumer.join()
MainFinalize_no_join ==
    /\ pc = "join"
    /\ LET ids == finalizing_ids(document_ids, document_ids_in_db)
       IN /\ document_ids' = ids
          /\ doc_tagged_by' = add_doc_tagged_by_infos(ids, doc_tagged_by)
          /\ run_records' = ids
    /\ pc' = "cleanup"
    /\ UNCHANGED <<ontology_vars, input_vars, db_docs, root_dir, document_ids_in_db, number_of_docs,
                   work_set, producer, task_queue, worker_vars, result_queue,
                   consumer_vars, history_vars>>

\* lines 236-241: consumer.join() returns once the consumer process has ended,
\* however it ended; then the DocTaggedBy records are written
MainFinalize ==
    /\ pc = "join"
    /\ consumer.pc \in {"done", "failed"}
    /\ LET ids == finalizing_ids(document_ids, document_ids_in_db)
       IN /\ document_ids' = ids
          /\ doc_tagged_by' = add_doc_tagged_by_infos(ids, doc_tagged_by)
          /\ run_records' = ids
    /\ pc' = "cleanup"
    /\ UNCHANGED <<ontology_vars, input_vars, db_docs, root_dir, document_ids_in_db, number_of_docs,
                   work_set, producer, task_queue, worker_vars, result_queue,
                   consumer_vars, history_vars>>

\* lines 243-247: the temporary directory is removed
MainCleanup ==
    /\ pc = "cleanup"
    /\ root_dir' = FALSE
    /\ pc' = "done"
    /\ UNCHANGED <<ontology_vars, input_vars, storage_vars, document_ids, document_ids_in_db,
                   number_of_docs, run_records, work_set, producer, task_queue,
                   worker_vars, result_queue, consumer_vars, history_vars>>

\* the same command is run again after a run that ended cleanly, without
\* --force-tag-all and with the storage as the first run left it
MainRerun ==
    /\ ~second_run
    /\ pc = "exit0" \/ (pc = "done" /\ consumer.pc = "done")
    /\ second_run' = TRUE
    /\ prev_work_set' = work_set
    /\ args' = [args EXCEPT !.force_tag_all = FALSE]
    /\ pc' = "load"
    /\ root_dir' = TRUE
    /\ document_ids' = {}
    /\ document_ids_in_db' = {}
    /\ number_of_docs' = 0
    /\ run_records' = {}
    /\ work_set' = {}
    /\ producer' = [pc |-> "new", pending |-> <<>>, signals |-> 0, failed |-> FALSE]
    /\ task_queue' = <<>>
    /\ workers' = [new |-> args.workers, idle |-> 0, exited |-> 0, dead |-> 0]
    /\ busy' = [i \in Items |-> 0]
    /\ result_queue' = <<>>
    /\ consumer' = [pc |-> "new", no_workers |-> consumer_no_workers(args)]
    /\ docs_done' = 0
    /\ partial_tags' = <<>>
    /\ inserted' = <<>>
    /\ enqueued' = {}
    /\ taken' = ZeroCount
    /\ emitted' = ZeroCount
    /\ failed' = {}
    /\ counted' = ZeroCount
    /\ produced' = [d \in AllIds |-> <<>>]
    /\ flushed_at' = <<>>
    /\ UNCHANGED <<ontology_vars, in_file, has_content, storage_vars>>

\* --------------------------------------------------------------- producer
\* a task is put while fewer than max_tasks tasks are in flight
ProducerPut ==
    /\ producer.pc = "gen"
    /\ producer.pending # <<>>
    /\ Len(task_queue) < producer_max_tasks
    /\ task_queue' = Append(task_queue, Task(Head(producer.pending)))
    /\ producer' = [producer EXCEPT !.pending = Tail(@)]
    /\ enqueued' = enqueued \cup {Head(producer.pending)}
    /\ UNCHANGED <<ontology_vars, input_vars, storage_vars, main_vars, worker_vars, result_queue,
                   consumer_vars, taken, emitted, failed, counted, produced, flushed_at>>

\* the supply raises while it is enumerated: the documents not yet yielded
\* are never enqueued; the failure is propagated as the end of the input, so
\* the closing signals follow
ProducerFails ==
    /\ producer.pc = "gen"
    /\ producer.pending # <<>>
    /\ producer' = [producer EXCEPT !.pending = <<>>, !.failed = TRUE]
    /\ UNCHANGED <<ontology_vars, input_vars, storage_vars, main_vars, task_queue, worker_vars,
                   result_queue, consumer_vars, history_vars>>

\* the input has ended: one closing signal per worker
ProducerSignal ==
    /\ producer.pc = "gen"
    /\ producer.pending = <<>>
    /\ task_queue' = Append(task_queue, SHUTDOWN_SIGNAL)
    /\ producer' = [producer EXCEPT
                        !.signals = @ + 1,
                        !.pc = IF producer.signals + 1 = producer_no_workers(args)
                               THEN "done" ELSE "gen"]
    /\ UNCHANGED <<ontology_vars, input_vars, storage_vars, main_vars, worker_vars, result_queue,
                   consumer_vars, history_vars>>

\* ---------------------------------------------------------------- workers
\* The workers run the same loop and differ in nothing else, so the model
\* keeps how many of them are at each position instead of who is.

\* an idle worker dequeues the next item
WorkerGet ==
    /\ workers.idle > 0
    /\ task_queue # <<>>
    /\ workers' = [workers EXCEPT !.idle = @ - 1]
    /\ busy' = [busy EXCEPT ![Head(task_queue).doc] = @ + 1]
    /\ task_queue' = Tail(task_queue)
    /\ taken' = IF Head(task_queue).shutdown THEN taken
                ELSE [taken EXCEPT ![Head(task_queue).doc] = @ + 1]
    /\ UNCHANGED <<ontology_vars, input_vars, storage_vars, main_vars, producer, result_queue,
                   consumer_vars, enqueued, emitted, failed, counted, produced, flushed_at>>

\* a closing signal is forwarded and the worker exits
WorkerForward ==
    /\ busy[0] > 0
    /\ result_queue' = Append(result_queue, SHUTDOWN_RESULT)
    /\ busy' = [busy EXCEPT ![0] = @ - 1]
    /\ workers' = [workers EXCEPT !.exited = @ + 1]
    /\ UNCHANGED <<ontology_vars, input_vars, storage_vars, main_vars, producer, task_queue,
                   consumer_vars, history_vars>>

\* do_task runs on the task and its return value is put on the result queue;
\* an exception leaving do_task would end the worker process
WorkerDo(d) ==
    /\ busy[d] > 0
    /\ busy' = [busy EXCEPT ![d] = @ - 1]
    /\ \E outcome \in TagOutcomes(d) :
         LET r == do_task(d, outcome)
         IN /\ failed' = IF outcome.raises THEN failed \cup {d} ELSE failed
            /\ IF r.raised
               THEN /\ workers' = [workers EXCEPT !.dead = @ + 1]
                    /\ UNCHANGED <<result_queue, emitted, produced>>
               ELSE /\ workers' = [workers EXCEPT !.idle = @ + 1]
                    /\ result_queue' = Append(result_queue, Result(d, r.value))
                    /\ emitted' = [emitted EXCEPT ![d] = @ + 1]
                    /\ produced' = [produced EXCEPT ![d] = r.value]
    /\ UNCHANGED <<ontology_vars, input_vars, storage_vars, main_vars, producer, task_queue,
                   consumer_vars, enqueued, taken, counted, flushed_at>>

\* --------------------------------------------------------------- consumer
\* a closing signal is counted; after the last one the loop ends
ConsumerSignal ==
    /\ consumer.pc = "run"
    /\ result_queue # <<>>
    /\ Head(result_queue).shutdown
    /\ result_queue' = Tail(result_queue)
    /\ consumer' = [pc |-> IF consumer.no_workers = 1 THEN "shutdown" ELSE "run",
                    no_workers |-> consumer.no_workers - 1]
    /\ UNCHANGED <<ontology_vars, input_vars, storage_vars, main_vars, producer, task_queue,
                   worker_vars, docs_done, partial_tags, inserted, history_vars>>

\* consume_task on a result; bulk_insert_partial_tags either inserts the buffer
\* and clears it, or raises and ends the consumer process
ConsumerConsume ==
    /\ consumer.pc = "run"
    /\ result_queue # <<>>
    /\ ~Head(result_queue).shutdown
    /\ LET res == Head(result_queue)
           c == consume_task(res.tags, docs_done, partial_tags, document_ids_in_db)
       IN /\ result_queue' = Tail(result_queue)
          /\ docs_done' = c.docs_done
          /\ counted' = [counted EXCEPT ![res.doc] = @ + 1]
          /\ IF c.flush
             THEN \E ok \in BOOLEAN :
                    IF ok
                    THEN /\ inserted' = Append(inserted, c.partial_tags)
                         /\ flushed_at' = Append(flushed_at, c.docs_done)
                         /\ partial_tags' = <<>>
                         /\ UNCHANGED consumer
                    ELSE /\ partial_tags' = c.partial_tags
                         /\ consumer' = [consumer EXCEPT !.pc = "failed"]
                         /\ UNCHANGED <<inserted, flushed_at>>
             ELSE /\ partial_tags' = c.partial_tags
                  /\ UNCHANGED <<inserted, flushed_at, consumer>>
    /\ UNCHANGED <<ontology_vars, input_vars, storage_vars, main_vars, producer, task_queue,
                   worker_vars, enqueued, taken, emitted, failed, produced>>

\* shutdown_consumer: the final bulk_insert_partial_tags
ConsumerShutdown ==
    /\ consumer.pc = "shutdown"
    /\ \E ok \in BOOLEAN :
         IF ok
         THEN /\ inserted' = Append(inserted, partial_tags)
              /\ flushed_at' = Append(flushed_at, docs_done)
              /\ partial_tags' = <<>>
              /\ consumer' = [consumer EXCEPT !.pc = "done"]
         ELSE /\ consumer' = [consumer EXCEPT !.pc = "failed"]
              /\ UNCHANGED <<inserted, flushed_at, partial_tags>>
    /\ UNCHANGED <<ontology_vars, input_vars, storage_vars, main_vars, producer, task_queue,
                   worker_vars, result_queue, docs_done, enqueued, taken, emitted,
                   failed, counted, produced>>

Next ==
    \/ MainLoad
    \/ MainLoadFails
    \/ MainStartProducer
    \/ MainStartWorker
    \/ MainStartConsumer
    \/ MainFinalize
    \/ MainCleanup
    \/ MainRerun
    \/ ProducerPut
    \/ ProducerFails
    \/ ProducerSignal
    \/ WorkerGet
    \/ WorkerForward
    \/ \E d \in AllIds : WorkerDo(d)
    \/ ConsumerSignal
    \/ ConsumerConsume
    \/ ConsumerShutdown

Spec == Init /\ [][Next]_vars

\* the batching scenario: the collection holds BatchDocs documents, all in
\* storage, none tagged before, all with content; no input file
InitBatch ==
    /\ args = [input |-> FALSE, skip_load |-> FALSE, force_tag_all |-> FALSE,
               workers |-> MaxWorkers]
    /\ in_file = [exists |-> FALSE, ids |-> {}]
    /\ db_docs = 1..BatchDocs
    /\ doc_tagged_by = {}
    /\ has_content = [d \in AllIds |-> TRUE]
    /\ second_run = FALSE
    /\ prev_work_set = {}
    /\ StartOfRun(args)
    /\ OntologyConstructed

SpecBatch == InitBatch /\ [][Next]_vars

\* the failure scenario: the collection holds the documents 1..ScenarioDocs,
\* all in storage, none tagged before, all with content; no input file
InitScenario ==
    /\ args = [input |-> FALSE, skip_load |-> FALSE, force_tag_all |-> FALSE,
               workers |-> MaxWorkers]
    /\ in_file = [exists |-> FALSE, ids |-> {}]
    /\ db_docs = 1..ScenarioDocs
    /\ doc_tagged_by = {}
    /\ has_content = [d \in AllIds |-> TRUE]
    /\ second_run = FALSE
    /\ prev_work_set = {}
    /\ StartOfRun(args)
    /\ OntologyConstructed

SpecScenario == InitScenario /\ [][Next]_vars

\* Scheduling: main, the producer, every worker and the consumer are
\* processes of their own, and the operating system lets each of them run
\* again and again; a step that stays possible is eventually taken.  Nothing
\* obliges the supply or a bulk insert to fail, or the command to be run again.
Fairness ==
    /\ WF_vars(MainLoad)
    /\ WF_vars(MainStartProducer)
    /\ WF_vars(MainStartWorker)
    /\ WF_vars(MainStartConsumer)
    /\ WF_vars(MainFinalize)
    /\ WF_vars(MainCleanup)
    /\ WF_vars(ProducerPut)
    /\ WF_vars(ProducerSignal)
    /\ WF_vars(WorkerGet)
    /\ WF_vars(WorkerForward)
    /\ WF_vars(\E d \in AllIds : WorkerDo(d))
    /\ WF_vars(ConsumerSignal)
    /\ WF_vars(ConsumerConsume)
    /\ WF_vars(ConsumerShutdown)

\* the runs whose scheduling is examined: the documents come from the record
\* store (the supply yields the same sequence whether it reads a file or the
\* store, so the queues see nothing of the difference)
InitFair == Init /\ ~args.input

SpecFair == InitFair /\ [][Next]_vars /\ Fairness

\* ---------------------------------------------------- MeSH ontology index
pipeline_vars == <<input_vars, storage_vars, main_vars, producer, task_queue,
                   worker_vars, result_queue, consumer_vars, history_vars>>

\* the tree numbers handed to tree_number_to_entity_type: every prefix of
\* every code of the table, every code with a further character and with a
\* further level, and the tree numbers of the MeSH file
Prefixes(s) == {SubSeq(s, 1, k) : k \in 0..Len(s)}
TreeNumberInputs ==
    MeshTreeNos \cup
    UNION {LET code == MESH_TREE_TO_ENTITY_TYPE[i][1]
           IN Prefixes(code) \cup {code \o <<"0">>, code \o <<".", "1", "0", "0">>}
           : i \in DOMAIN MESH_TREE_TO_ENTITY_TYPE}

\* lines 193-201: the index is cleared and the descriptors are read; the
\* outcome of an earlier classification call plays no part in the build
BuildIndexStart ==
    /\ ont.pc # "build"
    /\ treeno2desc' = <<>>
    /\ descriptor2treeno' = <<>>
    /\ ont' = [pc |-> "build", desc |-> 0, n |-> 0, tree_no |-> <<>>]
    /\ ont_result' = NoResult
    /\ UNCHANGED pipeline_vars

\* line 201: the loop goes on to the next descriptor of the file
BuildNextDescriptor ==
    /\ ont.pc = "build"
    /\ ont.desc < MaxDescs
    /\ ont' = [ont EXCEPT !.desc = @ + 1, !.n = 0]
    /\ UNCHANGED <<pipeline_vars, treeno2desc, descriptor2treeno, ont_result>>

\* lines 202-204: the next tree number of the descriptor is entered in both
\* dictionaries; the KeyError of _add_descriptor_for_tree_no leaves the loop
\* and the build
BuildAddTreeNumber(tn) ==
    /\ ont.pc = "build"
    /\ ont.desc >= 1
    /\ ont.n < MaxTreeNos
    /\ LET r == _add_descriptor_for_tree_no(treeno2desc, ont.desc, heading(ont.desc), tn)
       IN IF r.raised
          THEN /\ ont' = [ont EXCEPT !.pc = "raised", !.tree_no = tn]
               /\ treeno2desc' = r.treeno2desc
               /\ UNCHANGED descriptor2treeno
          ELSE /\ ont' = [ont EXCEPT !.n = @ + 1, !.tree_no = tn]
               /\ treeno2desc' = r.treeno2desc
               /\ descriptor2treeno' =
                     _add_tree_number_for_descriptor(descriptor2treeno, ont.desc, tn)
    /\ UNCHANGED <<pipeline_vars, ont_result>>

\* line 206: the last descriptor of the file has been processed
BuildDone ==
    /\ ont.pc = "build"
    /\ ont' = [ont EXCEPT !.pc = "built"]
    /\ UNCHANGED <<pipeline_vars, treeno2desc, descriptor2treeno, ont_result>>

\* a call of the static tree_number_to_entity_type
ClassifyTreeNumber(tn) ==
    /\ ont.pc = "constructed"
    /\ LET r == tree_number_to_entity_type(tn)
       IN ont_result' = [call |-> "tree_number_to_entity_type", arg |-> tn,
                         raised |-> r.raised, value |-> r.value]
    /\ UNCHANGED <<pipeline_vars, treeno2desc, descriptor2treeno, ont>>

\* a call of get_entity_types_for_descriptor on the index as the build left
\* it, for a descriptor of the file or for one the file does not hold
ClassifyDescriptor(d) ==
    /\ ont.pc \in {"built", "raised"}
    /\ \E r \in get_entity_types_for_descriptor(descriptor2treeno, d) :
         ont_result' = [call |-> "get_entity_types_for_descriptor", arg |-> <<d>>,
                        raised |-> r.raised, value |-> r.value]
    /\ UNCHANGED <<pipeline_vars, treeno2desc, descriptor2treeno, ont>>

NextOntology ==
    \/ BuildIndexStart
    \/ BuildNextDescriptor
    \/ \E tn \in MeshTreeNos : BuildAddTreeNumber(tn)
    \/ BuildDone
    \/ \E tn \in TreeNumberInputs : ClassifyTreeNumber(tn)
    \/ \E d \in DescIds \cup {MaxDescs + 1} : ClassifyDescriptor(d)

SpecOntology == InitScenario /\ [][NextOntology]_vars

\* ----------------------------------------------------------------- claims
\* the documents that the tags of a sequence belong to
DocsOfTags(tags) == {tags[i].document : i \in DOMAIN tags}
\* the work-set documents the Task Source lets through
Eligible == {d \in work_set : has_content[d]}
\* the consumer has left its loop and its final flush has returned
CleanlyJoined == consumer.pc = "done"

\* C1 as stated: once the consumer has been joined the Progress Counter
\* equals the size of the work set, every id of it counted exactly once.
C1_CounterEqualsWorkSet ==
    CleanlyJoined =>
        /\ docs_done = number_of_docs
        /\ \A d \in work_set : counted[d] = 1

\* C1 amended: once the consumer has been joined, and the supply was
\* enumerated to its end, the Progress Counter equals the number of work-set
\* documents whose content predicate holds; each of them was counted exactly
\* once and no other document was counted.
C1_CounterEqualsEligible ==
    (CleanlyJoined /\ ~producer.failed) =>
        /\ docs_done = Cardinality(Eligible)
        /\ \A d \in AllIds : counted[d] = IF d \in Eligible THEN 1 ELSE 0

C1_Witness ==
    /\ CleanlyJoined
    /\ args.workers = 2
    /\ docs_done = 1
    /\ Cardinality(work_set) = 2

\* C2: a document whose tagging raised has an empty Result, none of its tags
\* is in the buffer or in an inserted batch, and the Progress Counter counts
\* its Result like any other (the counter is the number of Results consumed).
C2_FailedDocEmptyButCounted ==
    /\ \A d \in failed :
        /\ emitted[d] = 1
        /\ \A i \in DOMAIN result_queue :
               result_queue[i].doc = d => result_queue[i].tags = <<>>
        /\ d \notin DocsOfTags(partial_tags)
        /\ d \notin DocsOfTags(Flatten(inserted))
        /\ CleanlyJoined => counted[d] = 1
    /\ docs_done = SumOver(counted, AllIds)

C2_Witness ==
    /\ CleanlyJoined
    /\ \E d \in failed : counted[d] = 1
    /\ \E e \in AllIds \ failed : e \in DocsOfTags(Flatten(inserted))
    /\ docs_done = 2

\* the second run has computed its work set
SecondRunLoaded == second_run /\ pc \notin {"load", "crashed"}
\* the second run selected nothing and stopped without processing anything
ProcessesNothing ==
    /\ work_set = {}
    /\ pc = "exit0"
    /\ enqueued = {}
    /\ docs_done = 0

\* C3 as stated: a second run after a completed run, without force-reprocess
\* and with no documents added, computes an empty work set and processes
\* nothing, whether or not every selected id is present in storage.
C3_SecondRunProcessesNothing == SecondRunLoaded => ProcessesNothing

\* C3 amended: the second run computes an empty work set and processes
\* nothing when every id the first run selected is present in storage.
C3_SecondRunProcessesNothingIfStored ==
    (SecondRunLoaded /\ prev_work_set \subseteq db_docs) => ProcessesNothing

C3_Witness ==
    /\ SecondRunLoaded
    /\ prev_work_set # {}
    /\ prev_work_set \subseteq db_docs
    /\ pc = "exit0"

\* C4: while the consumer has not failed, the number of bulk-insert calls is
\* floor(docs_done / K), plus the one final flush once it has shut down; when
\* every counted document had tags that were kept, each scheduled batch holds
\* the tags of exactly K documents and the final batch those of the remainder.
C4_FlushCount ==
    consumer.pc # "failed" =>
        /\ Len(inserted) = (docs_done \div BULK_INSERT_AFTER_K)
                               + (IF CleanlyJoined THEN 1 ELSE 0)
        /\ (CleanlyJoined /\ Cardinality(DocsOfTags(Flatten(inserted))) = docs_done) =>
              \A i \in DOMAIN inserted :
                 Cardinality(DocsOfTags(inserted[i])) =
                    IF i < Len(inserted) THEN BULK_INSERT_AFTER_K
                    ELSE docs_done % BULK_INSERT_AFTER_K

\* the scaled scenario: 2K+1 documents with tags, three bulk-insert calls,
\* two batches of K documents and one of the remaining document
C4_Witness ==
    /\ CleanlyJoined
    /\ args.workers >= 2
    /\ docs_done = BatchDocs
    /\ Len(inserted) = 3
    /\ Cardinality(DocsOfTags(inserted[1])) = BULK_INSERT_AFTER_K
    /\ Cardinality(DocsOfTags(inserted[2])) = BULK_INSERT_AFTER_K
    /\ Cardinality(DocsOfTags(inserted[3])) = 1

\* C5: a DocTaggedBy record is written only for an id that is in the work
\* set of the run and present in storage, and once main has finalized, for
\* every such id.
C5_RunRecordsInWorkSetAndStorage ==
    /\ run_records \subseteq (work_set \cap db_docs)
    /\ pc \in {"cleanup", "done"} => run_records = work_set \cap db_docs

C5_Witness ==
    /\ pc = "done"
    /\ run_records # {}
    /\ work_set \ db_docs # {}

\* C6: when the computed work set is empty main exits at once: the producer,
\* the workers and the consumer are never started, nothing is bulk-inserted
\* and no DocTaggedBy record is written.
C6_EmptyWorkSetShortCircuit ==
    (pc \notin {"load", "crashed"} /\ work_set = {}) =>
        /\ pc = "exit0"
        /\ producer.pc = "new"
        /\ workers.new = args.workers
        /\ consumer.pc = "new"
        /\ inserted = <<>>
        /\ run_records = {}

C6_Witness ==
    /\ pc = "exit0"
    /\ ~second_run
    /\ db_docs # {}
    /\ doc_tagged_by = db_docs

\* C7 as stated: no run ends (normally, by the empty-work-set exit, or by a
\* failure) with its temporary directory still present.
C7_TempDirReleasedOnExit ==
    pc \in {"done", "exit0", "crashed"} => ~root_dir

\* C8 as stated: after a flush has failed in the consumer, main never
\* finalizes and no DocTaggedBy record is written for the run (stated for
\* runs in which every work-set document has content and was enqueued).
C8_NoRunRecordsAfterFlushFailure ==
    (consumer.pc = "failed" /\ Eligible = work_set) =>
        /\ pc \notin {"cleanup", "done"}
        /\ run_records = {}

\* C9 as stated: every id that received a DocTaggedBy record at the end of a
\* cleanly joined run was enqueued as a Task and had its Result counted.
C9_RunRecordMeansProcessed ==
    CleanlyJoined =>
        \A d \in run_records : d \in enqueued /\ counted[d] = 1

\* C10: no Task is dequeued twice; every Task dequeued is either still with
\* its worker or has produced exactly one Result (empty if tagging raised);
\* no worker dies on a Task; Results emitted never exceed Tasks dequeued.
C10_OneResultPerTask ==
    /\ \A d \in AllIds :
        /\ taken[d] <= 1
        /\ emitted[d] + busy[d] = taken[d]
        /\ taken[d] = 1 => d \in enqueued
    /\ workers.dead = 0
    /\ SumOver(emitted, AllIds) <= SumOver(taken, AllIds)
    /\ workers.new + workers.idle + workers.exited + SumOver(busy, Items) = args.workers

C10_Witness ==
    /\ args.workers = 2
    /\ emitted[1] = 1
    /\ 1 \in failed
    /\ busy[2] = 1

\* how many closing signals a queue holds
SignalsIn(q) == Cardinality({i \in DOMAIN q : q[i].shutdown})
\* every closing signal the producer emitted is in the task queue, with a
\* worker, or was forwarded by a worker that exited; every forwarded signal is
\* in the result queue or was observed by the consumer
SignalsConserved ==
    /\ producer.signals <= args.workers
    /\ producer.signals = SignalsIn(task_queue) + busy[0] + workers.exited
    /\ workers.exited =
           SignalsIn(result_queue) + (args.workers - consumer.no_workers)
\* the producer has emitted N signals and ended, every worker has forwarded
\* one and exited, the consumer has observed N and signalled completion
AllStagesEnded ==
    /\ producer.pc = "done"
    /\ producer.signals = args.workers
    /\ workers.exited = args.workers
    /\ task_queue = <<>>
    /\ result_queue = <<>>
    /\ consumer.pc = "done"
    /\ consumer.no_workers = 0

\* C11: under fair scheduling, once the producer is to be started on a supply
\* that does not fail, the run reaches the state in which the producer has
\* emitted exactly N closing signals, each worker has dequeued one, forwarded
\* it and exited, and the consumer has observed N of them and signalled
\* completion (a bulk insert that raises ends the consumer instead); at no
\* time are there more signals than workers, and none is lost or doubled.
C11_Termination ==
    /\ []SignalsConserved
    /\ (pc = "start_producer") ~>
           (AllStagesEnded \/ producer.failed \/ consumer.pc = "failed")

C11_Witness ==
    /\ AllStagesEnded
    /\ ~producer.failed
    /\ args.workers = 2
    /\ docs_done = 2

\* no worker is waiting on the task queue or holding an item: all have exited
NoWorkerWaiting ==
    /\ workers.new = 0
    /\ workers.idle = 0
    /\ SumOver(busy, Items) = 0
    /\ workers.exited = args.workers

TagsOf(tags, d) == SelectSeq(tags, LAMBDA t : t.document = d)

\* C13: once the consumer has signalled completion the buffer is empty and
\* the bulk-inserted tags are exactly the tags of the Results whose document
\* is in storage: for each such document the tags of its Result, once and in
\* their order, and no tag of a document that is not in storage; before
\* that, no tag is inserted or buffered that its Result does not hold.
C13_NoTagLostOrDuplicated ==
    /\ \A d \in AllIds :
          TagsOf(Flatten(inserted) \o partial_tags, d) \in
             {<<>>, IF d \in document_ids_in_db THEN produced[d] ELSE <<>>}
    /\ CleanlyJoined =>
          /\ partial_tags = <<>>
          /\ \A d \in AllIds :
                TagsOf(Flatten(inserted), d) =
                   IF d \in document_ids_in_db THEN produced[d] ELSE <<>>

C13_Witness ==
    /\ CleanlyJoined
    /\ produced[1] # <<>>
    /\ produced[2] # <<>>
    /\ 1 \in document_ids_in_db
    /\ 2 \notin document_ids_in_db
    /\ Len(inserted) = 2

\* the order of the starts, of the final flush and of the records
StartedInOrder ==
    /\ workers.new < args.workers => producer.pc # "new"
    /\ consumer.pc # "new" => workers.new = 0
    /\ consumer.pc \in {"shutdown", "done"} => consumer.no_workers = 0
    /\ run_records # {} => consumer.pc \in {"done", "failed"}

C15_DrainedAtCompletion ==
    consumer.no_workers = 0 =>
        /\ task_queue = <<>>
        /\ SumOver(busy, Items) = 0
        /\ result_queue = <<>>
        /\ workers.exited = args.workers
        /\ \A d \in AllIds : counted[d] = emitted[d] /\ emitted[d] = taken[d]

C15_Witness ==
    /\ consumer.pc = "shutdown"
    /\ consumer.no_workers = 0
    /\ args.workers = 2
    /\ docs_done = 2

\* how many Tasks a queue holds
TasksIn(q) == Len(q) - SignalsIn(q)

C17_FaultIsolation ==
    /\ [](/\ workers.dead = 0
          /\ workers.exited + busy[0] + SignalsIn(task_queue) = producer.signals
          /\ workers.new + workers.idle + workers.exited + SumOver(busy, Items)
                 = args.workers)
    /\ [][workers'.exited > workers.exited =>
             /\ busy[0] > 0
             /\ busy'[0] = busy[0] - 1
             /\ workers'.exited = workers.exited + 1]_vars
    /\ [][failed' \ failed # {} =>
             /\ workers'.idle = workers.idle + 1
             /\ workers'.exited = workers.exited
             /\ workers'.dead = workers.dead
             /\ Len(result_queue') = Len(result_queue) + 1
             /\ result_queue'[Len(result_queue')].tags = <<>>]_vars

\* a single worker whose first Task raised went on to the second Task
C17_Witness ==
    /\ args.workers = 1
    /\ failed = {1}
    /\ emitted[1] = 1
    /\ produced[2] # <<>>
    /\ workers.exited = 0

\* the ids of the documents supplied: those of the input file, or those of
\* the collection in the record store
SuppliedIds == IF args.input THEN in_file.ids ELSE db_docs
\* main has computed the work set and has not yet written a record
WorkSetComputed ==
    pc \in {"exit0", "start_producer", "start_workers", "start_consumer", "join"}

\* C18 as stated: for an input file as for the record store, the work set is
\* the supplied ids minus the ids already tagged when the force-reprocess
\* flag is not given, and all the supplied ids when it is given.
C18_WorkSetComputation ==
    WorkSetComputed =>
        work_set = IF args.force_tag_all THEN SuppliedIds
                   ELSE SuppliedIds \ doc_tagged_by

\* the tagging of document 2 raised and every other document got tags
ScenarioOutcome ==
    /\ failed = {2}
    /\ \A d \in (1..ScenarioDocs) \ {2} : produced[d] # <<>>

\* C19: in the scenario (documents {1,2,3} in storage, K = 2, document 2
\* failing, the others tagged) every run that main completes after a clean
\* join has counted all three documents, has persisted tags of the documents
\* 1 and 3 only, has made one scheduled flush, when the counter reached 2,
\* and the final flush at 3, and has written the records of {1,2,3}.
C19_FailedDocGetsRunRecord ==
    (/\ pc \in {"cleanup", "done"}
     /\ CleanlyJoined
     /\ ~producer.failed
     /\ ScenarioOutcome) =>
        /\ docs_done = ScenarioDocs
        /\ DocsOfTags(Flatten(inserted)) = (1..ScenarioDocs) \ {2}
        /\ flushed_at = <<BULK_INSERT_AFTER_K, ScenarioDocs>>
        /\ run_records = 1..ScenarioDocs
        /\ 2 \in doc_tagged_by

C19_Witness ==
    /\ pc = "done"
    /\ CleanlyJoined
    /\ ScenarioOutcome
    /\ docs_done = 3
    /\ run_records = {1, 2, 3}
    /\ Len(inserted) = 2

\* C20: the i-th scheduled flush is made when the Progress Counter, which
\* counts empty Results like the others, has become i*K, and there is no
\* other bulk insert before the final one at shutdown; while the consumer
\* lives, the buffer is empty whenever the counter is a multiple of K and
\* after the final flush, and it never holds the tags of K Results or more.
C20_FlushCadence ==
    /\ docs_done = SumOver(counted, AllIds)
    /\ \A i \in DOMAIN flushed_at :
          \/ flushed_at[i] = i * BULK_INSERT_AFTER_K
          \/ /\ i = Len(flushed_at)
             /\ CleanlyJoined
             /\ flushed_at[i] = docs_done
    /\ consumer.pc # "failed" =>
          /\ Len(flushed_at) = (docs_done \div BULK_INSERT_AFTER_K)
                                   + (IF CleanlyJoined THEN 1 ELSE 0)
          /\ docs_done % BULK_INSERT_AFTER_K = 0 => partial_tags = <<>>
          /\ CleanlyJoined => partial_tags = <<>>
          /\ Cardinality(DocsOfTags(partial_tags)) <= docs_done % BULK_INSERT_AFTER_K
          /\ Cardinality(DocsOfTags(partial_tags)) < BULK_INSERT_AFTER_K

\* a scheduled flush that a failed document brought about
C20_Witness ==
    /\ consumer.pc = "run"
    /\ flushed_at = <<BULK_INSERT_AFTER_K>>
    /\ docs_done = BULK_INSERT_AFTER_K
    /\ failed # {}
    /\ \A d \in failed : counted[d] = 1
    /\ Cardinality(DocsOfTags(inserted[1])) = BULK_INSERT_AFTER_K - 1
    /\ partial_tags = <<>>

\* every tree number listed for a descriptor is mapped to that descriptor,
\* and no tree number is listed twice
IndexConsistent ==
    /\ \A d \in DOMAIN descriptor2treeno :
          \A i \in DOMAIN descriptor2treeno[d] :
             LET tn == descriptor2treeno[d][i]
             IN /\ tn \in DOMAIN treeno2desc
                /\ treeno2desc[tn] = <<d, heading(d)>>
    /\ \A d, e \in DOMAIN descriptor2treeno :
          \A i \in DOMAIN descriptor2treeno[d], j \in DOMAIN descriptor2treeno[e] :
             descriptor2treeno[d][i] = descriptor2treeno[e][j] => (d = e /\ i = j)
    /\ \A tn \in DOMAIN treeno2desc :
          \E d \in DOMAIN descriptor2treeno :
             \E i \in DOMAIN descriptor2treeno[d] : descriptor2treeno[d][i] = tn

\* C21: during and after a build every tree number listed in
\* descriptor2treeno[d] is a key of treeno2desc mapped to d; a tree number,
\* once mapped, keeps its descriptor until the index is cleared; the
\* insertion of a tree number that is mapped already raises KeyError and
\* leaves both dictionaries as they were, and the insertion of any other
\* tree number does not raise.
C21_IndexInsertion ==
    /\ []IndexConsistent
    /\ [][ont.pc = "build" =>
             \A tn \in DOMAIN treeno2desc :
                tn \in DOMAIN treeno2desc' /\ treeno2desc'[tn] = treeno2desc[tn]]_vars
    /\ [][(ont.pc = "build" /\ ont'.pc = "raised") =>
             /\ ont'.tree_no \in DOMAIN treeno2desc
             /\ treeno2desc' = treeno2desc
             /\ descriptor2treeno' = descriptor2treeno]_vars
    /\ [][(ont.pc = "build" /\ ont'.pc = "build" /\ ont'.n = ont.n + 1) =>
             /\ ont'.tree_no \notin DOMAIN treeno2desc
             /\ treeno2desc'[ont'.tree_no] = <<ont.desc, heading(ont.desc)>>]_vars

\* the second descriptor carried a tree number of the first
C21_Witness ==
    /\ ont.pc = "raised"
    /\ ont.desc = 2
    /\ ont.tree_no \in DOMAIN treeno2desc
    /\ treeno2desc[ont.tree_no][1] = 1
    /\ 2 \in DOMAIN descriptor2treeno

\* code is a prefix of the tree number: the tree number is code followed by
\* some, possibly no, further characters
IsPrefixOf(code, tn) == \E k \in 0..Len(tn) : SubSeq(tn, 1, k) = code
\* the entries of the table whose code is a prefix of tn, in table order
MatchingEntries(tn) ==
    SelectSeq(MESH_TREE_TO_ENTITY_TYPE, LAMBDA e : IsPrefixOf(e[1], tn))
\* the entity types of those entries
MatchingTypes(tn) == {MatchingEntries(tn)[i][2] : i \in DOMAIN MatchingEntries(tn)}
\* the union of them over the tree numbers the index lists for descriptor d
TypesOfDescriptor(d) ==
    IF d \notin DOMAIN descriptor2treeno THEN {}
    ELSE UNION {MatchingTypes(descriptor2treeno[d][i]) :
                   i \in DOMAIN descriptor2treeno[d]}

\* C22: tree_number_to_entity_type raises KeyError exactly when no code of
\* the table is a prefix of the tree number, and otherwise returns the types
\* of the entries whose code is a prefix, one per entry and in table order;
\* get_entity_types_for_descriptor raises KeyError when the union of these
\* types over the tree numbers of the descriptor is empty, and otherwise
\* returns the types of the union, each once.
C22_EntityTypes ==
    /\ ont_result.call = "tree_number_to_entity_type" =>
          LET entries == MatchingEntries(ont_result.arg)
          IN /\ ont_result.raised <=> entries = <<>>
             /\ ~ont_result.raised =>
                   ont_result.value = [i \in DOMAIN entries |-> entries[i][2]]
    /\ ont_result.call = "get_entity_types_for_descriptor" =>
          LET types == TypesOfDescriptor(ont_result.arg[1])
          IN /\ ont_result.raised <=> types = {}
             /\ ~ont_result.raised =>
                   /\ {ont_result.value[i] : i \in DOMAIN ont_result.value} = types
                   /\ Len(ont_result.value) = Cardinality(types)

\* a descriptor under "E02.319.300" and under "C": four types, the dosage
\* form found twice by the table and returned once
C22_Witness ==
    /\ ont_result.call = "get_entity_types_for_descriptor"
    /\ ~ont_result.raised
    /\ Len(descriptor2treeno[ont_result.arg[1]]) = 2
    /\ Len(ont_result.value) = 4
    /\ ont_result.value[1] = DISEASE

====
